---------------------------- MODULE Spec2Model ----------------------------
(***************************************************************************)
(* hls-live-thumbnails: one SimpleThumbnailGenerator wrapping one          *)
(* ThumbnailGenerator, as a state machine.                                 *)
(*                                                                         *)
(* Stream time (segment durations, thumbnail times, the interval) is       *)
(* counted in whole ticks; the durations and target counts offered by the  *)
(* environment are chosen so that duration / targetThumbnailCount is       *)
(* exact.  Wall-clock time (Date.now()) is counted in milliseconds and     *)
(* advances one second at a time.                                          *)
(*                                                                         *)
(* A JavaScript turn (one callback with every microtask it queues) is one  *)
(* action.  The suspension points are the playlist fetch, the retry wait,  *)
(* the segment download + ffmpeg run, the move of the produced files, the  *)
(* poll timer, the GC interval timer and each unlink.                      *)
(***************************************************************************)
EXTENDS Integers, Sequences, FiniteSets, TLC

(***************************************************************************)
(* Bounds of the model.                                                    *)
(***************************************************************************)
\* polls (calls of _grabThumbnails) per run
MaxPolls == 2
\* segments per playlist
MaxSegs == 2
\* largest EXT-X-MEDIA-SEQUENCE the server offers
MaxSeq == 1
\* seconds the wall clock may advance
MaxNow == 1
\* injected I/O faults (failed extraction, missing frame, failed unlink)
MaxFaults == 1
\* largest interval or targetThumbnailCount a caller passes to the constructor
MaxOption == 8
\* generators a service is asked to start
MaxGenerators == 2
\* seconds the wall clock may advance while the service runs
MaxServiceNow == 3

(***************************************************************************)
(* Program constants.                                                      *)
(***************************************************************************)
\* _getPlaylist gives up when numAttempts reaches this
MaxAttempts == 3
\* expireTime is in seconds, Date.now() in milliseconds
MsPerSecond == 1000
\* the targetThumbnailCount of a generator constructed without one
DefaultTargetThumbnailCount == 30
\* the thumbnail width when neither width nor height is given
DefaultThumbnailWidth == 150

(***************************************************************************)
(* Values.  null is NULL, undefined is UNDEFINED; both coerce as           *)
(* JavaScript coerces them where the code does arithmetic on them.         *)
(***************************************************************************)
NULL == -1
UNDEFINED == -2
\* an options object without the key
ABSENT == -3

\* ToBoolean of a number, null or undefined
Truthy(x) == x \notin {ABSENT, UNDEFINED, NULL, 0}

\* Number(null) = 0 in arithmetic and relational comparison
Num(x) == IF x = NULL THEN 0 ELSE x

Max(a, b) == IF a >= b THEN a ELSE b

\* the absent thumbnail / absent event argument
NoThumb == [sn |-> NULL, name |-> <<>>, time |-> 0]

\* no extraction has failed since the last changed playlist
NoFailure == [sn |-> NULL, time |-> 0]

\* the absent playlist (this._parsedPlaylist = null, _getPlaylist resolving null)
NoPlaylist == [mediaSequence |-> NULL, segments |-> <<>>, foundEndlist |-> FALSE]

\* the duration, in ticks, of the segment with sequence number sn: a segment
\* keeps its duration for as long as the server lists it
DurationOf(sn) == IF sn % 2 = 0 THEN 4 ELSE 2

\* the media playlists a fetch can return: any window of at most MaxSegs
\* segments starting at any media sequence, ended or not
Playlists ==
    {[mediaSequence |-> m,
      segments |-> [i \in 1..n |-> DurationOf(m + i - 1)],
      foundEndlist |-> e] :
        m \in 0..MaxSeq, n \in 0..MaxSegs, e \in BOOLEAN}

\* the options a generator is constructed with: interval XOR targetThumbnailCount
Configs ==
    {[interval |-> i, targetThumbnailCount |-> IF i = NULL THEN 2 ELSE NULL,
      initialThumbnailCount |-> k, expireTime |-> x,
      ignorePlaylist404 |-> FALSE, playlistRetryCount |-> 2,
      neverDelete |-> FALSE] :
        i \in {NULL, 3}, k \in {NULL, 1}, x \in {0, 1}}

\* the same options with --playlistRetryCount and --ignorePlaylist404 given
RetryConfigs ==
    {[interval |-> NULL, targetThumbnailCount |-> 2,
      initialThumbnailCount |-> 1, expireTime |-> 0,
      ignorePlaylist404 |-> b, playlistRetryCount |-> n,
      neverDelete |-> FALSE] :
        b \in BOOLEAN, n \in {-1, 0, 1, 2}}

\* the options with a fixed interval, without and with an initialThumbnailCount
InitialCountConfigs ==
    {[interval |-> 3, targetThumbnailCount |-> NULL,
      initialThumbnailCount |-> k, expireTime |-> 0,
      ignorePlaylist404 |-> FALSE, playlistRetryCount |-> 2,
      neverDelete |-> FALSE] : k \in {NULL, 1, 2}}

\* the options with --neverDelete given: expireTime must then be omitted
NeverDeleteConfigs ==
    {[interval |-> NULL, targetThumbnailCount |-> 2,
      initialThumbnailCount |-> k, expireTime |-> 0,
      ignorePlaylist404 |-> FALSE, playlistRetryCount |-> 2,
      neverDelete |-> TRUE] : k \in {NULL, 1}}


VARIABLES
    cfg,      \* the options the generators were constructed with
    now,      \* Date.now(), in milliseconds
    gen,      \* the ThumbnailGenerator's fields and the position of its pipeline
    simple,   \* the SimpleThumbnailGenerator's fields, its pending unlinks and writes
    files,    \* the thumbnail files in the output directory
    manifest, \* the manifest file in the output directory
    polls,    \* calls of _grabThumbnails so far
    fetched,  \* what the latest _getPlaylist resolved with
    faults,   \* I/O faults injected so far
    service   \* the ThumbnailGeneratorService's fields, when run as a service

vars == <<cfg, now, gen, simple, files, manifest, polls, fetched, faults, service>>

(***************************************************************************)
(* ThumbnailGenerator: pure helpers.  Segment indexes are 0-based as in    *)
(* the source; segments[i] of the source is segments[i + 1] here.          *)
(***************************************************************************)

\* sum of the durations of the first n segments
RECURSIVE SumDurations(_, _)
SumDurations(segments, n) ==
    IF n = 0 THEN 0 ELSE SumDurations(segments, n - 1) + segments[n]

\* _calculateSegmentStartTime throws "Segment not found."
CalculateSegmentStartTimeThrows(segments, segmentIndex) ==
    segmentIndex > Len(segments)

\* _calculateSegmentStartTime: segmentIndex can be length to get the duration
CalculateSegmentStartTime(segments, segmentIndex) ==
    SumDurations(segments, segmentIndex)

\* _getSegmentInfoAtTime: the first segment whose end lies after the time, or null
GetSegmentInfoAtTime(segments, segmentContainingTime) ==
    LET hits == {i \in 0..(Len(segments) - 1) :
                    SumDurations(segments, i + 1) > segmentContainingTime}
    IN  IF hits = {} THEN [index |-> NULL, startTime |-> 0]
        ELSE LET i == CHOOSE k \in hits : \A j \in hits : k <= j
             IN  [index |-> i, startTime |-> SumDurations(segments, i)]

\* as HasPlaylistChanged, comparing the segment counts only
HasPlaylistChangedBySegmentCount(parsedPlaylist, newPlaylist) ==
    ~(/\ parsedPlaylist # NoPlaylist
      /\ Len(parsedPlaylist.segments) = Len(newPlaylist.segments))

\* _hasPlaylistChanged: same segment count and same media sequence means unchanged
HasPlaylistChanged(parsedPlaylist, newPlaylist) ==
    ~(/\ parsedPlaylist # NoPlaylist
      /\ Len(parsedPlaylist.segments) = Len(newPlaylist.segments)
      /\ parsedPlaylist.mediaSequence = newPlaylist.mediaSequence)

\* lastLocationSegmentIndex of _grabThumbnails, or NULL
LastLocationSegmentIndex(lastLocation, firstSN, segments) ==
    IF lastLocation = NoThumb THEN NULL
    ELSE LET idx == lastLocation.sn - firstSN
         IN  IF idx < 0 \/ idx > Len(segments) THEN NULL ELSE idx

\* the last-location branch of _grabThumbnails throws: segments[length] is
\* undefined and _calculateSegmentStartTime(segments, length + 1) throws
NextThumbnailTimeThrows(segments, idx) ==
    idx # NULL /\ CalculateSegmentStartTimeThrows(segments, idx + 1)

\* nextThumbnailTime when the last location's segment is still in the playlist
NextTimeFromLastLocation(segments, idx, interval, lastLocation) ==
    LET nextSegmentStartTime == CalculateSegmentStartTime(segments, idx + 1)
    IN  nextSegmentStartTime + interval - segments[idx + 1] - lastLocation.time

\* as NextThumbnailTime, starting at the beginning of the playlist whatever
\* initialThumbnailCount is
NextThumbnailTimeFromStart(segments, idx, interval, lastLocation, initialThumbnailCount) ==
    IF idx # NULL THEN NextTimeFromLastLocation(segments, idx, interval, lastLocation)
    ELSE 0

\* nextThumbnailTime of _grabThumbnails
NextThumbnailTime(segments, idx, interval, lastLocation, initialThumbnailCount) ==
    IF idx # NULL THEN NextTimeFromLastLocation(segments, idx, interval, lastLocation)
    ELSE IF initialThumbnailCount = NULL THEN 0
    ELSE Max(0, CalculateSegmentStartTime(segments, Len(segments))
                    - (initialThumbnailCount * interval))

\* as FrameTimes, with a frame taken at the very end of the segment too
RECURSIVE FrameTimesThroughEnd(_, _, _)
FrameTimesThroughEnd(time, duration, interval) ==
    IF time <= duration
    THEN <<time>> \o FrameTimesThroughEnd(time + interval, duration, interval)
    ELSE <<>>

\* _generateThumbnailsWithFfmpeg: the frame times, while time < duration
RECURSIVE FrameTimes(_, _, _)
FrameTimes(time, duration, interval) ==
    IF time < duration
    THEN <<time>> \o FrameTimes(time + interval, duration, interval)
    ELSE <<>>

\* the file name <prefix>-<sn>-<i>.jpg; the prefix is fixed per generator
FileName(sn, i) == <<sn, i>>

\* _generateThumbnails, lines 336-348: the frames that exist, with name and time
RECURSIVE ThumbnailData(_, _, _, _, _)
ThumbnailData(present, sn, timeIntoSegment, interval, i) ==
    IF i >= Len(present) THEN <<>>
    ELSE (IF present[i + 1]
          THEN <<[sn |-> sn, name |-> FileName(sn, i),
                  time |-> timeIntoSegment + (interval * i)]>>
          ELSE <<>>)
         \o ThumbnailData(present, sn, timeIntoSegment, interval, i + 1)


(***************************************************************************)
(* SimpleThumbnailGenerator: handlers as functions of its fields s.        *)
(***************************************************************************)

\* an event as a subscriber of an emitter receives it: its type and argument
Event(type, arg) == [type |-> type, arg |-> arg]

\* as SimpleEmit, without the check of _destroyed
SimpleEmitAlways(s, type, arg) ==
    [s EXCEPT !.events = Append(@, Event(type, arg))]

\* SimpleThumbnailGenerator.prototype._emit: nothing once destroyed
SimpleEmit(s, type, arg) ==
    IF s.destroyed THEN s ELSE [s EXCEPT !.events = Append(@, Event(type, arg))]

\* getThumbnails: segment.removalTime is read but no code ever assigns it
GetThumbnails(s) ==
    [i \in 1..Len(s.segments) |->
        [sn |-> s.segments[i].sn,
         removalTime |-> UNDEFINED,
         thumbnails |-> s.segments[i].thumbnails]]

\* JSON.stringify of one SegmentRecord: a key whose value is undefined is dropped
StringifySegment(segment) ==
    IF segment.removalTime = UNDEFINED
    THEN [sn |-> segment.sn, thumbnails |-> segment.thumbnails]
    ELSE segment

\* JSON.stringify({segments, ended}), as the content of the manifest file
Stringify(segments, ended) ==
    [present |-> TRUE,
     segments |-> [i \in 1..Len(segments) |-> StringifySegment(segments[i])],
     ended |-> ended]

\* no manifest file in the output directory
NoManifest == [present |-> FALSE, segments |-> <<>>, ended |-> FALSE]

\* _updateManifest: starts one write of the serialized state (it completes later)
UpdateManifest(s) ==
    [s EXCEPT !.writes = Append(@, Stringify(GetThumbnails(s), s.playlistEnded))]

\* n copies of x
Repeat(x, n) == [i \in 1..n |-> x]

\* as MarkSegmentsAsRemoved, recording one sequence number more
MarkSegmentsAsRemovedThroughNext(s, lastRemovedSn) ==
    LET nextRemovedSn == Num(s.offset) + Len(s.times)
        numRemoved == Max(0, lastRemovedSn + 2 - nextRemovedSn)
    IN  [s EXCEPT !.times = @ \o Repeat(now, numRemoved)]

\* _markSegmentsAsRemoved
MarkSegmentsAsRemoved(s, lastRemovedSn) ==
    LET nextRemovedSn == Num(s.offset) + Len(s.times)
        numRemoved == Max(0, lastRemovedSn + 1 - nextRemovedSn)
    IN  [s EXCEPT !.times = @ \o Repeat(now, numRemoved)]

\* as OnPlaylistChanged, marking the first segment of the playlist as removed too
OnPlaylistChangedThroughFirst(s, playlist) ==
    LET firstSn == playlist.mediaSequence
        s1 == IF s.offset = NULL THEN [s EXCEPT !.offset = firstSn] ELSE s
    IN  MarkSegmentsAsRemoved(s1, firstSn)

\* the playlistChanged listener
OnPlaylistChanged(s, playlist) ==
    LET firstSn == playlist.mediaSequence
        s1 == IF s.offset = NULL THEN [s EXCEPT !.offset = firstSn] ELSE s
    IN  MarkSegmentsAsRemoved(s1, firstSn - 1)

\* the playlistEnded listener
OnPlaylistEnded(s) ==
    SimpleEmit(UpdateManifest([s EXCEPT !.playlistEnded = TRUE]), "playlistEnded", NoThumb)

\* the playlistRemoved listener; with no playlist ever accepted, playlist.properties
\* throws a TypeError, which ThumbnailGenerator._emit catches and logs
OnPlaylistRemoved(s, playlist) ==
    LET s1 == [s EXCEPT !.playlistRemoved = TRUE]
    IN  IF playlist = NoPlaylist THEN s1
        ELSE MarkSegmentsAsRemoved(
                 s1, playlist.mediaSequence + Len(playlist.segments) - 1)

\* index of the SegmentRecord of sn in s.segments, or 0
SegmentIndex(segments, sn) ==
    IF \E i \in 1..Len(segments) : segments[i].sn = sn
    THEN CHOOSE i \in 1..Len(segments) :
             segments[i].sn = sn /\ \A j \in 1..(i - 1) : segments[j].sn # sn
    ELSE 0

\* thumbnails.push(item) followed by the stable sort on time
PushAndSort(thumbnails, item) ==
    SelectSeq(thumbnails, LAMBDA x : x.time <= item.time)
        \o <<item>>
        \o SelectSeq(thumbnails, LAMBDA x : x.time > item.time)

\* _getSnThumbnails(sn, true), then push and sort: the new s.segments
AddThumbnail(segments, thumbnail) ==
    LET item == [time |-> thumbnail.time, name |-> thumbnail.name]
        i == SegmentIndex(segments, thumbnail.sn)
    IN  IF i # 0
        THEN [segments EXCEPT ![i].thumbnails = PushAndSort(@, item)]
        ELSE Append(segments, [sn |-> thumbnail.sn, thumbnails |-> <<item>>])

\* the newThumbnail listener.  "newThumbnail". thumbnail is the property
\* `thumbnail` of a string, which is undefined: the event emitted has type
\* undefined and no argument
OnNewThumbnail(s, thumbnail) ==
    IF thumbnail.sn < Num(s.offset) THEN s
    ELSE LET s1 == [s EXCEPT !.segments = AddThumbnail(@, thumbnail),
                             !.recorded = Append(@, thumbnail)]
             s2 == UpdateManifest(s1)
             s3 == SimpleEmit(s2, "undefined", NoThumb)
         IN  SimpleEmit(s3, "thumbnailsChanged", NoThumb)

\* the thumbnails of all SegmentRecords, in order
RECURSIVE AllThumbnails(_)
AllThumbnails(segments) ==
    IF segments = <<>> THEN <<>>
    ELSE Head(segments).thumbnails \o AllThumbnails(Tail(segments))

\* one pending verifiedUnlink per thumbnail
Unlinks(kind, thumbnails) ==
    [i \in 1..Len(thumbnails) |-> [kind |-> kind, thumbnail |-> thumbnails[i]]]

(***************************************************************************)
(* Steps that touch both generators work on st = [g, s, f]: the            *)
(* ThumbnailGenerator, the SimpleThumbnailGenerator, the output files.     *)
(***************************************************************************)

\* ThumbnailGenerator.prototype.destroy: clearTimeout takes the poll timer
\* away if it is still pending
GenDestroy(g) ==
    IF g.destroyed THEN g
    ELSE [g EXCEPT !.destroyed = TRUE,
                   !.timers = Max(0, @ - 1),
                   !.pc = IF @ = "timer" THEN "stopped" ELSE @]

\* SimpleThumbnailGenerator.prototype.destroy
SimpleDestroy(st, doNotDeleteFiles) ==
    IF st.s.destroyed THEN st
    ELSE LET s1 == [st.s EXCEPT !.destroyed = TRUE,
                                !.doNotDeleteFiles = doNotDeleteFiles]
             s2 == IF doNotDeleteFiles THEN s1
                   ELSE [s1 EXCEPT !.unlinks =
                            @ \o Unlinks("destroy", AllThumbnails(s1.segments))
                              \o <<[kind |-> "manifest", thumbnail |-> NoThumb]>>]
         IN  [st EXCEPT !.s = s2, !.g = GenDestroy(st.g)]

\* _gc emits finished and destroys the generator when this holds after reaping
GcFinishedWithoutRemoved(s) == Len(s.segments) = 0

GcFinished(s) == s.playlistRemoved /\ Len(s.segments) = 0

\* as GcReaps, sparing the record of the highest expired sequence number
GcReapsBelow(sn, highestExpiredSegmentSn) == sn < highestExpiredSegmentSn

\* the SegmentRecords _gc deletes
GcReaps(sn, highestExpiredSegmentSn) == sn <= highestExpiredSegmentSn

\* the times _gc keeps
GcKeeps(time, expireTime) == ~(time <= expireTime)

\* the threshold _gc compares the removal times with
GcExpireTime(expireTime) == now + (expireTime * MsPerSecond)

\* as GcOffset, one short
GcOffsetAtHighest(highestExpiredSegmentSn) == highestExpiredSegmentSn

\* the offset of the removal timeline after _gc reaped up to a sequence number
GcOffset(highestExpiredSegmentSn) == highestExpiredSegmentSn + 1

\* _gc
Gc(st) ==
    LET s == st.s
        expireTime == GcExpireTime(cfg.expireTime)
        expired == {i \in 1..Len(s.times) : ~GcKeeps(s.times[i], expireTime)}
    IN  IF expired = {} THEN st
        ELSE LET last == CHOOSE i \in expired : \A j \in expired : j <= i
                 highestExpiredSegmentSn == Num(s.offset) + (last - 1)
                 gone == SelectSeq(s.segments,
                                   LAMBDA seg : GcReaps(seg.sn, highestExpiredSegmentSn))
                 s1 == [s EXCEPT
                          !.times = SelectSeq(@, LAMBDA time : GcKeeps(time, expireTime)),
                          !.offset = GcOffset(highestExpiredSegmentSn),
                          !.segments = SelectSeq(@,
                                LAMBDA seg : ~GcReaps(seg.sn, highestExpiredSegmentSn)),
                          !.unlinks = @ \o Unlinks("gc", AllThumbnails(gone))]
             IN  IF GcFinished(s1)
                 THEN SimpleDestroy([st EXCEPT !.s = SimpleEmit(s1, "finished", NoThumb)],
                                    FALSE)
                 ELSE [st EXCEPT !.s = s1]

\* the callback of a verifiedUnlink that _gc started, after the file is gone
OnGcUnlinked(s, thumbnail) ==
    LET s1 == UpdateManifest([s EXCEPT !.unlinked = Append(@, thumbnail)])
        s2 == SimpleEmit(s1, "undefined", NoThumb)
    IN  SimpleEmit(s2, "thumbnailsChanged", NoThumb)

\* ThumbnailGenerator.prototype._emit with the listeners that
\* _registerGeneratorListeners attached; nothing once destroyed
GenEmit(st, type, arg) ==
    IF st.g.destroyed THEN st
    ELSE LET st1 == [st EXCEPT !.g.events = Append(@, Event(type, arg))]
         IN  CASE type = "playlistChanged" ->
                    [st1 EXCEPT !.s = OnPlaylistChanged(@, st1.g.parsedPlaylist)]
               [] type = "playlistEnded" ->
                    [st1 EXCEPT !.s = OnPlaylistEnded(@)]
               [] type = "playlistRemoved" ->
                    [st1 EXCEPT !.s = OnPlaylistRemoved(@, st1.g.parsedPlaylist)]
               [] type = "newThumbnail" ->
                    [st1 EXCEPT !.s = OnNewThumbnail(@, arg)]
               [] type = "error" ->
                    SimpleDestroy([st1 EXCEPT !.s = SimpleEmit(@, "error", NoThumb)], FALSE)
               [] OTHER -> st1


(***************************************************************************)
(* ThumbnailGenerator: the pipeline of _grabThumbnails.                    *)
(***************************************************************************)

\* the locals of one _grabThumbnails call are gone once it has completed
ClearWalk(g) ==
    [g EXCEPT !.nextThumbnailTime = 0, !.time = 0, !.moved = <<>>,
              !.walk = [i |-> 0, startTime |-> 0, timeIntoSegment |-> 0]]

\* playlistEnded is emitted the first time a call ends with the flag set
EmitEndedOnce(st) ==
    IF st.g.playlistEnded /\ ~st.g.endedEventEmitted
    THEN GenEmit([st EXCEPT !.g.endedEventEmitted = TRUE], "playlistEnded", NoThumb)
    ELSE st

\* as FinishPoll, arming the poll timer whether or not the generator is destroyed
FinishPollArmsAlways(st) ==
    [EmitEndedOnce(st) EXCEPT
        !.g = [ClearWalk(@) EXCEPT !.pc = IF st.g.destroyed THEN "stopped" ELSE "timer",
                                   !.calls = @ - 1, !.timers = @ + 1]]

\* the last .then of _grabThumbnails: playlistEnded once, then the poll timer;
\* the call of _grabThumbnails is complete
FinishPoll(st) ==
    IF st.g.destroyed
    THEN [st EXCEPT !.g = [ClearWalk(@) EXCEPT !.pc = "stopped", !.calls = @ - 1]]
    ELSE [EmitEndedOnce(st) EXCEPT
            !.g = [ClearWalk(@) EXCEPT !.pc = "timer", !.calls = @ - 1,
                                       !.timers = @ + 1]]

\* handleSegment(i) up to its first suspension: segments that end at or before
\* nextThumbnailTime are passed over, the first one that ends after it starts an
\* extraction; with no segment left the call completes
RECURSIVE HandleSegment(_, _)
HandleSegment(st, i) ==
    LET g == st.g
        segments == g.parsedPlaylist.segments
        startTime == g.time
        endTime == g.time + segments[i + 1]
        st1 == [st EXCEPT !.g.time = endTime]
    IN  IF endTime > g.nextThumbnailTime
        THEN [st1 EXCEPT
                !.g.pc = "extract",
                !.g.walk = [i |-> i, startTime |-> startTime,
                            timeIntoSegment |-> Max(0, g.nextThumbnailTime - startTime)]]
        ELSE IF ~g.destroyed /\ i + 1 < Len(segments)
        THEN HandleSegment(st1, i + 1)
        ELSE FinishPoll(st1)

\* as ContinueWalk, but playlistEnded is announced while segments are left
ContinueWalkEndedFirst(st) ==
    IF ~st.g.destroyed /\ st.g.walk.i + 1 < Len(st.g.parsedPlaylist.segments)
    THEN HandleSegment(EmitEndedOnce(st), st.g.walk.i + 1)
    ELSE FinishPoll(st)

\* the .then after a segment was handled: the next segment, or the end of the call
ContinueWalk(st) ==
    IF ~st.g.destroyed /\ st.g.walk.i + 1 < Len(st.g.parsedPlaylist.segments)
    THEN HandleSegment(st, st.g.walk.i + 1)
    ELSE FinishPoll(st)

\* as AdjustedInterval, computed for the first playlist only
FirstAdjustedInterval(interval, targetThumbnailCount, duration) ==
    IF Truthy(targetThumbnailCount) /\ interval = NULL
    THEN duration \div targetThumbnailCount
    ELSE interval

\* the interval _grabThumbnails uses for a playlist of this duration
AdjustedInterval(interval, targetThumbnailCount, duration) ==
    IF Truthy(targetThumbnailCount) THEN duration \div targetThumbnailCount ELSE interval

\* whether a poll that found the playlist ended returns before looking at it
NeverSkipsEndedPlaylist(playlistEnded) == FALSE

SkipsEndedPlaylist(playlistEnded) == playlistEnded

\* the first .then of _grabThumbnails, given what _getPlaylist resolved with
GrabResult(st, parsed) ==
    IF st.g.destroyed THEN FinishPoll(st)
    ELSE IF parsed = NoPlaylist
    THEN LET st1 == GenEmit(st, "playlistRemoved", NoThumb)
         IN  FinishPoll([st1 EXCEPT !.g = GenDestroy(@)])
    ELSE IF SkipsEndedPlaylist(st.g.playlistEnded) THEN FinishPoll(st)
    ELSE IF ~HasPlaylistChanged(st.g.parsedPlaylist, parsed) THEN FinishPoll(st)
    ELSE LET st1 == GenEmit([st EXCEPT !.g.parsedPlaylist = parsed,
                                       !.g.failed = NoFailure],
                            "playlistChanged", parsed)
             segments == parsed.segments
             firstSN == parsed.mediaSequence
             duration == CalculateSegmentStartTime(segments, Len(segments))
             interval == AdjustedInterval(st1.g.interval, cfg.targetThumbnailCount,
                                          duration)
             idx == LastLocationSegmentIndex(st1.g.lastLocation, firstSN, segments)
             st2 == [st1 EXCEPT !.g.playlistEnded = parsed.foundEndlist,
                                !.g.interval = interval]
         IN  IF NextThumbnailTimeThrows(segments, idx) THEN FinishPoll(st2)
             ELSE LET nextThumbnailTime ==
                          NextThumbnailTime(segments, idx, interval, st2.g.lastLocation,
                                            cfg.initialThumbnailCount)
                      startSegment == GetSegmentInfoAtTime(segments, nextThumbnailTime)
                  IN  IF startSegment.index = NULL THEN FinishPoll(st2)
                      ELSE HandleSegment(
                              [st2 EXCEPT !.g.nextThumbnailTime = nextThumbnailTime,
                                          !.g.time = startSegment.startTime],
                              startSegment.index)

\* the thumbnailData.forEach of handleSegment
RECURSIVE EmitThumbnails(_, _)
EmitThumbnails(st, thumbnailData) ==
    IF thumbnailData = <<>> THEN st
    ELSE LET thumbnail == Head(thumbnailData)
             st1 == [st EXCEPT
                       !.g.lastLocation = thumbnail,
                       !.g.nextThumbnailTime =
                            st.g.walk.startTime + thumbnail.time + st.g.interval]
         IN  EmitThumbnails(GenEmit(st1, "newThumbnail", thumbnail), Tail(thumbnailData))


\* the program runs standalone: no ThumbnailGeneratorService
NoService == [pingInterval |-> NULL, thumbnailWidth |-> NULL,
              thumbnailHeight |-> NULL, generators |-> <<>>, status |-> NULL]

(***************************************************************************)
(* The state after construction.                                           *)
(***************************************************************************)

InitGen(options) ==
    [pc |-> "init", numAttempts |-> 0, destroyed |-> FALSE,
     parsedPlaylist |-> NoPlaylist, lastLocation |-> NoThumb,
     interval |-> options.interval,
     playlistEnded |-> FALSE, endedEventEmitted |-> FALSE,
     nextThumbnailTime |-> 0, time |-> 0, moved |-> <<>>,
     walk |-> [i |-> 0, startTime |-> 0, timeIntoSegment |-> 0],
     events |-> <<>>, failed |-> NoFailure,
     timers |-> 0, calls |-> 0]

\* the fields of a SimpleThumbnailGenerator as its constructor sets them
NewSimple ==
    [offset |-> NULL, times |-> <<>>, segments |-> <<>>,
     playlistRemoved |-> FALSE, playlistEnded |-> FALSE, destroyed |-> FALSE,
     doNotDeleteFiles |-> FALSE,
     events |-> <<>>, unlinks |-> <<>>, writes |-> <<>>,
     recorded |-> <<>>, unlinked |-> <<>>]

\* the constructor ends with this._updateManifest()
InitSimple == UpdateManifest(NewSimple)

Init ==
    /\ cfg \in Configs
    /\ now = 0
    /\ gen = InitGen(cfg)
    /\ simple = InitSimple
    /\ files = {}
    /\ manifest = NoManifest
    /\ polls = 0
    /\ fetched = NoPlaylist
    /\ faults = 0
    /\ service = NoService

\* the state after construction with the retry options given
RetryInit ==
    /\ cfg \in RetryConfigs
    /\ now = 0
    /\ gen = InitGen(cfg)
    /\ simple = InitSimple
    /\ files = {}
    /\ manifest = NoManifest
    /\ polls = 0
    /\ fetched = NoPlaylist
    /\ faults = 0
    /\ service = NoService

\* the state after construction with interval and initialThumbnailCount given
InitialCountInit ==
    /\ cfg \in InitialCountConfigs
    /\ now = 0
    /\ gen = InitGen(cfg)
    /\ simple = InitSimple
    /\ files = {}
    /\ manifest = NoManifest
    /\ polls = 0
    /\ fetched = NoPlaylist
    /\ faults = 0
    /\ service = NoService

\* the state after construction with neverDelete given
NeverDeleteInit ==
    /\ cfg \in NeverDeleteConfigs
    /\ now = 0
    /\ gen = InitGen(cfg)
    /\ simple = InitSimple
    /\ files = {}
    /\ manifest = NoManifest
    /\ polls = 0
    /\ fetched = NoPlaylist
    /\ faults = 0
    /\ service = NoService

(***************************************************************************)
(* Actions: one per callback.                                              *)
(***************************************************************************)

State == [g |-> gen, s |-> simple, f |-> files]

\* a call of _grabThumbnails begins: _getPlaylist starts its first attempt
StartGrab(g) == [g EXCEPT !.pc = "fetch", !.numAttempts = 1, !.calls = @ + 1]

Becomes(st) == gen' = st.g /\ simple' = st.s /\ files' = st.f

\* _getResolvedPlaylistUrl resolved: the first _grabThumbnails starts its fetch
ResolveOk ==
    /\ gen.pc = "init"
    /\ gen' = StartGrab(gen)
    /\ polls' = polls + 1
    /\ UNCHANGED <<service, cfg, manifest, now, simple, files, fetched, faults>>

\* as ResolveFail, with a catch handler that does not rethrow: the .then that
\* follows it calls _grabThumbnails
ResolveFailThenPoll ==
    /\ gen.pc = "init"
    /\ LET st1 == GenEmit(State, "error", NoThumb)
       IN  Becomes([st1 EXCEPT !.g = StartGrab(GenDestroy(@))])
    /\ polls' = polls + 1
    /\ UNCHANGED <<service, cfg, manifest, now, fetched, faults>>

\* _getResolvedPlaylistUrl rejected: error is emitted, the generator destroys
\* itself, and the rethrown error keeps the first _grabThumbnails from running
ResolveFail ==
    /\ gen.pc = "init"
    /\ LET st1 == GenEmit(State, "error", NoThumb)
       IN  Becomes([st1 EXCEPT !.g = [GenDestroy(@) EXCEPT !.pc = "stopped"]])
    /\ UNCHANGED <<service, cfg, manifest, now, polls, fetched, faults>>

\* a playlist fetch succeeded and parsed
FetchOk ==
    /\ gen.pc = "fetch"
    /\ \E parsed \in Playlists :
          /\ fetched' = parsed
          /\ Becomes(GrabResult(State, parsed))
    /\ UNCHANGED <<service, cfg, manifest, now, polls, faults>>

\* a playlist fetch got a 404: _getPlaylist resolves null at once
Fetch404 ==
    /\ gen.pc = "fetch"
    /\ fetched' = NoPlaylist
    /\ Becomes(GrabResult(State, NoPlaylist))
    /\ UNCHANGED <<service, cfg, manifest, now, polls, faults>>

\* a playlist fetch failed otherwise: wait and retry, or give up
FetchError ==
    /\ gen.pc = "fetch"
    /\ IF ~gen.destroyed /\ gen.numAttempts < MaxAttempts
       THEN Becomes([State EXCEPT !.g.pc = "wait"]) /\ UNCHANGED fetched
       ELSE Becomes(GrabResult(State, NoPlaylist)) /\ fetched' = NoPlaylist
    /\ UNCHANGED <<service, cfg, manifest, now, polls, faults>>

\* the 5 second wait is over: the next attempt
WaitDone ==
    /\ gen.pc = "wait"
    /\ gen' = [gen EXCEPT !.pc = "fetch", !.numAttempts = @ + 1]
    /\ UNCHANGED <<service, cfg, manifest, now, simple, files, polls, fetched, faults>>

\* the frames ffmpeg is asked for in the segment being extracted
WalkFrames ==
    FrameTimes(gen.walk.timeIntoSegment,
               gen.parsedPlaylist.segments[gen.walk.i + 1], gen.interval)

\* the segment was downloaded and ffmpeg produced every frame (or all but the
\* last one): the files are moved to the output directory unless destroyed
ExtractOk(lastMissing) ==
    /\ gen.pc = "extract"
    /\ lastMissing => (WalkFrames # <<>> /\ faults < MaxFaults)
    /\ faults' = IF lastMissing THEN faults + 1 ELSE faults
    /\ LET n == Len(WalkFrames)
           sn == gen.parsedPlaylist.mediaSequence + gen.walk.i
           present == [i \in 1..n |-> ~(lastMissing /\ i = n)]
       IN  IF gen.destroyed THEN Becomes(ContinueWalk(State))
           ELSE Becomes([State EXCEPT
                    !.g.pc = "move",
                    !.g.moved = present,
                    !.f = @ \cup {FileName(sn, i - 1) : i \in {j \in 1..n : present[j]}}])
    /\ UNCHANGED <<service, cfg, manifest, now, polls, fetched>>

\* the download or ffmpeg failed: logged, the walk goes on.  failed is
\* history: the segment and the offset of the extraction that was lost
ExtractError ==
    /\ gen.pc = "extract"
    /\ faults < MaxFaults
    /\ faults' = faults + 1
    /\ Becomes(ContinueWalk([State EXCEPT
            !.g.failed = [sn |-> gen.parsedPlaylist.mediaSequence + gen.walk.i,
                          time |-> gen.walk.timeIntoSegment]]))
    /\ UNCHANGED <<service, cfg, manifest, now, polls, fetched>>

\* the files are in the output directory: the thumbnails are emitted
MoveDone ==
    /\ gen.pc = "move"
    /\ LET sn == gen.parsedPlaylist.mediaSequence + gen.walk.i
           thumbnailData == ThumbnailData(gen.moved, sn, gen.walk.timeIntoSegment,
                                          gen.interval, 0)
       IN  IF gen.destroyed THEN Becomes(ContinueWalk(State))
           ELSE Becomes(ContinueWalk(EmitThumbnails(State, thumbnailData)))
    /\ UNCHANGED <<service, cfg, manifest, now, polls, fetched, faults>>

\* the poll timer fires: the next _grabThumbnails starts its fetch
TimerFire ==
    /\ gen.pc = "timer"
    /\ polls < MaxPolls
    /\ gen' = StartGrab([gen EXCEPT !.timers = @ - 1])
    /\ polls' = polls + 1
    /\ UNCHANGED <<service, cfg, manifest, now, simple, files, fetched, faults>>

\* the GC interval timer fires (cleared by destroy)
GcTick ==
    /\ ~simple.destroyed
    /\ Becomes(Gc(State))
    /\ UNCHANGED <<service, cfg, manifest, now, polls, fetched, faults>>

\* a list of pending operations without its i-th entry
Without(unlinks, i) ==
    SubSeq(unlinks, 1, i - 1) \o SubSeq(unlinks, i + 1, Len(unlinks))

\* a verifiedUnlink resolved: the file is gone
UnlinkOk ==
    /\ \E i \in 1..Len(simple.unlinks) :
          LET u == simple.unlinks[i]
              s1 == [simple EXCEPT !.unlinks = Without(@, i)]
          IN  /\ simple' = IF u.kind = "gc" THEN OnGcUnlinked(s1, u.thumbnail) ELSE s1
              /\ files' = IF u.kind = "manifest" THEN files
                          ELSE files \ {u.thumbnail.name}
              /\ manifest' = IF u.kind = "manifest" THEN NoManifest ELSE manifest
    /\ UNCHANGED <<service, cfg, now, gen, polls, fetched, faults>>

\* a verifiedUnlink rejected: the file is still there, the error is logged
UnlinkError ==
    /\ faults < MaxFaults
    /\ faults' = faults + 1
    /\ \E i \in 1..Len(simple.unlinks) :
          /\ simple.unlinks[i].kind # "manifest"
          /\ simple.unlinks[i].thumbnail.name \in files
          /\ simple' = [simple EXCEPT !.unlinks = Without(@, i)]
    /\ UNCHANGED <<service, cfg, manifest, now, gen, files, polls, fetched>>

\* a write of the manifest file completed: the file holds what that write
\* carried, whichever write was started last; once destroyed the file is
\* deleted again
WriteDone ==
    /\ \E i \in 1..Len(simple.writes) :
          /\ manifest' = simple.writes[i]
          /\ simple' = [simple EXCEPT
                  !.writes = Without(@, i),
                  !.unlinks = IF simple.destroyed
                              THEN Append(@, [kind |-> "manifest", thumbnail |-> NoThumb])
                              ELSE @]
    /\ UNCHANGED <<service, cfg, now, gen, files, polls, fetched, faults>>

\* destroy(doNotDeleteFiles) called from outside
Destroy ==
    /\ ~simple.destroyed
    /\ \E doNotDeleteFiles \in BOOLEAN : Becomes(SimpleDestroy(State, doNotDeleteFiles))
    /\ UNCHANGED <<service, cfg, manifest, now, polls, fetched, faults>>

\* a second passes
ClockTick ==
    /\ now < MaxNow * MsPerSecond
    /\ now' = now + MsPerSecond
    /\ UNCHANGED <<service, cfg, manifest, gen, simple, files, polls, fetched, faults>>

Next ==
    \/ ResolveOk
    \/ ResolveFail
    \/ FetchOk
    \/ Fetch404
    \/ FetchError
    \/ WaitDone
    \/ ExtractOk(FALSE)
    \/ ExtractOk(TRUE)
    \/ ExtractError
    \/ MoveDone
    \/ TimerFire
    \/ GcTick
    \/ UnlinkOk
    \/ UnlinkError
    \/ Destroy
    \/ ClockTick

\* the generators without the completion of manifest writes, which no field
\* of either generator depends on: every write stays pending
Spec == Init /\ [][Next]_vars

\* the runs the manifest claims are about: the manifest writes complete, in
\* any order, for a generator that starts one interval before the live edge
ManifestInit ==
    /\ Init
    /\ cfg.interval = NULL
    /\ cfg.initialThumbnailCount # NULL
    /\ cfg.expireTime = 0

ManifestNext == Next \/ WriteDone

ManifestSpec == ManifestInit /\ [][ManifestNext]_vars

RetrySpec == RetryInit /\ [][Next]_vars

NeverDeleteSpec == NeverDeleteInit /\ [][Next]_vars

InitialCountSpec == InitialCountInit /\ [][Next]_vars


\* the run the liveness claims are about: destroy() is never called from outside
NextUndisturbed ==
    \/ ResolveOk
    \/ ResolveFail
    \/ FetchOk
    \/ Fetch404
    \/ FetchError
    \/ WaitDone
    \/ ExtractOk(FALSE)
    \/ ExtractOk(TRUE)
    \/ ExtractError
    \/ MoveDone
    \/ TimerFire
    \/ GcTick
    \/ UnlinkOk
    \/ UnlinkError
    \/ ClockTick

\* setInterval keeps firing _gc, pending callbacks are eventually run
FairSpec ==
    /\ Init
    /\ [][NextUndisturbed]_vars
    /\ WF_vars(GcTick)
    /\ WF_vars(FetchOk \/ Fetch404 \/ FetchError)
    /\ WF_vars(WaitDone)
    /\ WF_vars(ExtractOk(FALSE) \/ ExtractOk(TRUE) \/ ExtractError)
    /\ WF_vars(MoveDone)
    /\ WF_vars(UnlinkOk \/ UnlinkError)

(***************************************************************************)
(* Construction: new SimpleThumbnailGenerator(options, generatorOptions)   *)
(* calls new ThumbnailGenerator(generatorOptions) before it arms the GC    *)
(* timer and writes the first manifest.                                    *)
(***************************************************************************)

\* what a caller may pass as interval and as targetThumbnailCount
OptionValues == {ABSENT, UNDEFINED, NULL} \cup 0..MaxOption

\* the generatorOptions a caller may pass
RawOptions ==
    {[interval |-> i, targetThumbnailCount |-> n,
      initialThumbnailCount |-> NULL, expireTime |-> 0,
      ignorePlaylist404 |-> FALSE, playlistRetryCount |-> 2,
      neverDelete |-> FALSE] : i \in OptionValues, n \in OptionValues}

\* Object.assign({key: default}, options): a key of options wins, whatever its value
Assigned(default, given) == IF given = ABSENT THEN default ELSE given

\* opts of the ThumbnailGenerator constructor
Opts(options) ==
    [options EXCEPT
        !.interval = Assigned(NULL, options.interval),
        !.targetThumbnailCount =
            Assigned(IF ~Truthy(options.interval) THEN DefaultTargetThumbnailCount
                     ELSE NULL,
                     options.targetThumbnailCount)]

\* as ConstructorThrows, for a constructor that accepts every combination
ConstructorAccepts(options) == FALSE

\* "You cannot use targetThumbnailCount and interval options together."
ConstructorThrows(options) ==
    Truthy(Opts(options).targetThumbnailCount) /\ Truthy(Opts(options).interval)

\* before new SimpleThumbnailGenerator(...) has run
ConstructInit ==
    /\ cfg \in RawOptions
    /\ now = 0
    /\ gen = [InitGen(cfg) EXCEPT !.pc = "new", !.interval = NULL]
    /\ simple = NewSimple
    /\ files = {}
    /\ manifest = NoManifest
    /\ polls = 0
    /\ fetched = NoPlaylist
    /\ faults = 0
    /\ service = NoService

\* new SimpleThumbnailGenerator(...): the ThumbnailGenerator constructor throws
\* out of it, or both generators are set up
Construct ==
    /\ gen.pc = "new"
    /\ IF ConstructorThrows(cfg)
       THEN /\ gen' = [gen EXCEPT !.pc = "thrown"]
            /\ UNCHANGED <<service, cfg, simple>>
       ELSE /\ cfg' = Opts(cfg)
            /\ gen' = InitGen(cfg')
            /\ simple' = InitSimple
    /\ UNCHANGED <<service, now, files, manifest, polls, fetched, faults>>

\* construction, then the resolution of the playlist url
ConstructNext ==
    \/ Construct
    \/ ResolveOk
    \/ ResolveFail

ConstructSpec == ConstructInit /\ [][ConstructNext]_vars

(***************************************************************************)
(* The service: ThumbnailGeneratorService keeps a registry of generators   *)
(* by id and, with pingInterval, one timeout per generator.  A generator  *)
(* is represented by what the service does with it: whether it is in the  *)
(* registry, whether it is destroyed, the size of its thumbnails.          *)
(***************************************************************************)

\* a falsy value becomes the default: x || default
OrElse(x, default) == IF Truthy(x) THEN x ELSE default

\* cli: var width = options.width || (options.height ? null : 150)
CliWidth(width, height) ==
    OrElse(width, IF Truthy(height) THEN NULL ELSE DefaultThumbnailWidth)

\* cli: var height = options.height || null
CliHeight(height) == OrElse(height, NULL)

\* POST /v1/start: width && (options.width = parseInt(width))
StartOption(given) == IF Truthy(given) THEN given ELSE ABSENT

\* ThumbnailGenerator constructor: opts.thumbnailWidth, for options that carry
\* the service's thumbnailWidth and thumbnailHeight and the request's width
\* and height
OptsThumbnailWidth(thumbnailWidth, width, height) ==
    Assigned(IF Truthy(width) THEN width
             ELSE IF ~Truthy(height) THEN DefaultThumbnailWidth ELSE NULL,
             thumbnailWidth)

\* ThumbnailGenerator constructor: opts.thumbnailHeight
OptsThumbnailHeight(thumbnailHeight, height) ==
    Assigned(IF Truthy(height) THEN height ELSE NULL, thumbnailHeight)

\* _buildFfmpegSize: NULL stands for "?"
BuildFfmpegSize(w, h) == <<OrElse(w, NULL), OrElse(h, NULL)>>

\* _createGenerator and the constructors it calls: the size of the thumbnails
\* of a generator started with these request parameters
GeneratorSize(s, width, height) ==
    BuildFfmpegSize(
        OptsThumbnailWidth(s.thumbnailWidth, StartOption(width), StartOption(height)),
        OptsThumbnailHeight(s.thumbnailHeight, StartOption(height)))

\* as SchedulePingTimeout, keeping a timeout that is already pending
SchedulePingTimeoutOnce(s, id) ==
    IF ~Truthy(s.pingInterval) \/ s.generators[id].pingTimeout # UNDEFINED THEN s
    ELSE [s EXCEPT !.generators[id].pingTimeout = now + (s.pingInterval * MsPerSecond)]

\* _schedulePingTimeout: the pending timeout is cleared, a new one is set
SchedulePingTimeout(s, id) ==
    IF ~Truthy(s.pingInterval) THEN s
    ELSE [s EXCEPT !.generators[id].pingTimeout = now + (s.pingInterval * MsPerSecond)]

\* what the command line may give as width and height
CliSizes == {ABSENT, 300}

\* what a request may give as width and height
RequestSizes == {ABSENT, 100}

\* the service is listening
ServiceInit ==
    /\ cfg \in {c \in Configs : c.interval = NULL /\ c.initialThumbnailCount = NULL
                                  /\ c.expireTime = 0}
    /\ now = 0
    /\ gen = InitGen(cfg)
    /\ simple = NewSimple
    /\ files = {}
    /\ manifest = NoManifest
    /\ polls = 0
    /\ fetched = NoPlaylist
    /\ faults = 0
    /\ \E pingInterval \in {NULL, 1, 2}, width \in CliSizes, height \in CliSizes :
          service = [pingInterval |-> pingInterval,
                     thumbnailWidth |-> CliWidth(width, height),
                     thumbnailHeight |-> CliHeight(height),
                     generators |-> <<>>, status |-> NULL]

\* nothing but the service and the clock changes
ServiceStep(s) ==
    /\ service' = s
    /\ UNCHANGED <<cfg, now, gen, simple, files, manifest, polls, fetched, faults>>

\* the ids of the generators started so far
Ids == 1..Len(service.generators)

Registered(id) == id \in Ids /\ service.generators[id].registered

\* POST /v1/start
PostStart(width, height) ==
    /\ Len(service.generators) < MaxGenerators
    /\ LET id == Len(service.generators) + 1
           generator == [registered |-> TRUE, destroyed |-> FALSE,
                         size |-> GeneratorSize(service, width, height),
                         requested |-> <<width, height>>,
                         pingTimeout |-> UNDEFINED, lastPing |-> now,
                         reaped |-> FALSE]
           s1 == [service EXCEPT !.generators = Append(@, generator), !.status = 200]
       IN  ServiceStep(SchedulePingTimeout(s1, id))

\* GET /v1/generators/:id
GetGenerator(id) ==
    IF ~Registered(id)
    THEN ServiceStep([service EXCEPT !.status = 404])
    ELSE ServiceStep([SchedulePingTimeout(service, id) EXCEPT
                         !.generators[id].lastPing = now, !.status = 200])

\* DELETE /v1/generators/:id
DeleteGenerator(id) ==
    IF ~Registered(id)
    THEN ServiceStep([service EXCEPT !.status = 404])
    ELSE ServiceStep([service EXCEPT
            !.generators[id].destroyed = TRUE,
            !.generators[id].registered = FALSE,
            !.generators[id].pingTimeout =
                IF Truthy(service.pingInterval) THEN UNDEFINED ELSE @,
            !.status = 200])

\* the ping timeout of a generator fires
PingTimeout(id) ==
    /\ id \in Ids
    /\ service.generators[id].pingTimeout # UNDEFINED
    /\ now >= service.generators[id].pingTimeout
    /\ ServiceStep([service EXCEPT
            !.generators[id].destroyed = TRUE,
            !.generators[id].registered = FALSE,
            !.generators[id].pingTimeout = UNDEFINED,
            !.generators[id].reaped = ~service.generators[id].destroyed])

\* a generator emits error or finished: it has destroyed itself, the listener
\* of the service takes it out of the registry
GeneratorDone(id) ==
    /\ Registered(id)
    /\ ServiceStep([service EXCEPT
            !.generators[id].destroyed = TRUE,
            !.generators[id].registered = FALSE])

\* a second passes; a timeout that is due fires before the clock moves on
ServiceTick ==
    /\ now < MaxServiceNow * MsPerSecond
    /\ \A id \in Ids : service.generators[id].pingTimeout # UNDEFINED =>
                            now < service.generators[id].pingTimeout
    /\ now' = now + MsPerSecond
    /\ UNCHANGED <<service, cfg, gen, simple, files, manifest, polls, fetched, faults>>

ServiceNext ==
    \/ \E width \in RequestSizes, height \in RequestSizes : PostStart(width, height)
    \/ \E id \in 1..MaxGenerators : GetGenerator(id)
    \/ \E id \in 1..MaxGenerators : DeleteGenerator(id)
    \/ \E id \in 1..MaxGenerators : PingTimeout(id)
    \/ \E id \in 1..MaxGenerators : GeneratorDone(id)
    \/ ServiceTick

ServiceSpec == ServiceInit /\ [][ServiceNext]_vars

(***************************************************************************)
(* The standalone program: one SimpleThumbnailGenerator, process.exit from *)
(* the listeners of error and finished.                                    *)
(***************************************************************************)

\* the events of one type in an emitter's log
EventsOfType(events, type) == SelectSeq(events, LAMBDA e : e.type = type)

\* the code the process exited with, or NULL while it runs
ExitCode ==
    IF EventsOfType(simple.events, "error") # <<>> THEN 1
    ELSE IF EventsOfType(simple.events, "finished") # <<>> THEN 0
    ELSE NULL

Running == ExitCode = NULL

\* the poll timer of an ended playlist fires after the polls counted by MaxPolls:
\* the generator goes on checking that the playlist is still online
TimerFireEnded ==
    /\ gen.pc = "timer"
    /\ polls = MaxPolls
    /\ gen.playlistEnded
    /\ gen' = StartGrab([gen EXCEPT !.timers = @ - 1])
    /\ UNCHANGED <<service, cfg, manifest, now, simple, files, polls, fetched, faults>>

\* every callback runs only while the process lives
StandaloneNext ==
    \/ Running /\ ResolveOk
    \/ Running /\ ResolveFail
    \/ Running /\ FetchOk
    \/ Running /\ Fetch404
    \/ Running /\ FetchError
    \/ Running /\ WaitDone
    \/ Running /\ ExtractOk(FALSE)
    \/ Running /\ ExtractOk(TRUE)
    \/ Running /\ ExtractError
    \/ Running /\ MoveDone
    \/ Running /\ TimerFire
    \/ Running /\ TimerFireEnded
    \/ Running /\ GcTick
    \/ Running /\ UnlinkOk
    \/ Running /\ UnlinkError
    \/ Running /\ ClockTick

\* timers keep firing and pending callbacks are run for as long as the process
\* lives; the server decides what each fetch gets
StandaloneSpec ==
    /\ Init
    /\ [][StandaloneNext]_vars
    /\ WF_vars(Running /\ GcTick)
    /\ WF_vars(Running /\ (TimerFire \/ TimerFireEnded))
    /\ WF_vars(Running /\ (FetchOk \/ Fetch404 \/ FetchError))
    /\ WF_vars(Running /\ WaitDone)
    /\ WF_vars(Running /\ (ExtractOk(FALSE) \/ ExtractOk(TRUE) \/ ExtractError))
    /\ WF_vars(Running /\ MoveDone)
    /\ WF_vars(Running /\ (UnlinkOk \/ UnlinkError))

(***************************************************************************)
(* A longer run: one more poll than MaxPolls counts, for a generator that  *)
(* is not destroyed from outside and meets no I/O fault other than the     *)
(* loss of the playlist.                                                   *)
(***************************************************************************)

\* the poll timer fires once more after the polls counted by MaxPolls
TimerFireLate ==
    /\ gen.pc = "timer"
    /\ polls = MaxPolls
    /\ gen' = StartGrab([gen EXCEPT !.timers = @ - 1])
    /\ polls' = polls + 1
    /\ UNCHANGED <<service, cfg, manifest, now, simple, files, fetched, faults>>

LongRunNext ==
    \/ ResolveOk
    \/ FetchOk
    \/ Fetch404
    \/ FetchError
    \/ WaitDone
    \/ ExtractOk(FALSE)
    \/ MoveDone
    \/ TimerFire
    \/ TimerFireLate
    \/ GcTick
    \/ UnlinkOk
    \/ ClockTick

LongRunSpec == Init /\ [][LongRunNext]_vars

(***************************************************************************)
(* Properties.                                                             *)
(***************************************************************************)

\* the newThumbnail events the ThumbnailGenerator has emitted, in order
NewThumbnails == EventsOfType(gen.events, "newThumbnail")

\* C1: no two newThumbnail events of one ThumbnailGenerator carry the same
\* file name.
C1_UniqueFileNames ==
    \A i, j \in 1..Len(NewThumbnails) :
        i < j => NewThumbnails[i].arg.name # NewThumbnails[j].arg.name

\* C2: the (sn, time) pairs of successive newThumbnail events are
\* non-decreasing in lexicographic order.
C2_NonDecreasing ==
    \A i \in 1..(Len(NewThumbnails) - 1) :
        LET a == NewThumbnails[i].arg
            b == NewThumbnails[i + 1].arg
        IN  a.sn < b.sn \/ (a.sn = b.sn /\ a.time <= b.time)

\* index of the last location's segment in the accepted playlist, or NULL when
\* the segment is not one of the playlist's segments
LastLocationIndex ==
    IF gen.lastLocation = NoThumb \/ gen.parsedPlaylist = NoPlaylist THEN NULL
    ELSE LET idx == gen.lastLocation.sn - gen.parsedPlaylist.mediaSequence
         IN  IF idx >= 0 /\ idx < Len(gen.parsedPlaylist.segments) THEN idx ELSE NULL

\* C3: while a segment is being extracted and the last thumbnail location's
\* segment is in the playlist, the next thumbnail time is
\* S + lastLocation.time + interval, S being the start time of that segment in
\* the current playlist.
C3_NextThumbnailTime ==
    (gen.pc = "extract" /\ LastLocationIndex # NULL) =>
        gen.nextThumbnailTime =
            CalculateSegmentStartTime(gen.parsedPlaylist.segments, LastLocationIndex)
                + gen.lastLocation.time + gen.interval

\* the removal time recorded for sn in the removal timeline, or NULL
RemovalTimeOf(s, sn) ==
    LET i == sn - Num(s.offset) + 1
    IN  IF i >= 1 /\ i <= Len(s.times) THEN s.times[i] ELSE NULL

HasRecord(s, sn) == SegmentIndex(s.segments, sn) # 0

\* C4: a GC run at an instant when less than expireTime seconds have passed
\* since sn was recorded as removed keeps the removal-timeline entry of sn and
\* its SegmentRecord, and starts no unlink of its files.
C4_KeptUntilExpired ==
    [][GcTick =>
          \A sn \in 0..(MaxSeq + MaxSegs) :
              (/\ RemovalTimeOf(simple, sn) # NULL
               /\ now < RemovalTimeOf(simple, sn) + (cfg.expireTime * MsPerSecond))
              => /\ RemovalTimeOf(simple', sn) = RemovalTimeOf(simple, sn)
                 /\ HasRecord(simple, sn) => HasRecord(simple', sn)
                 /\ \A i \in 1..Len(simple'.unlinks) :
                        (/\ simple'.unlinks[i].kind = "gc"
                         /\ simple'.unlinks[i].thumbnail.name[1] = sn)
                        => i <= Len(simple.unlinks)]_vars

\* C5: every SegmentRecord returned by getThumbnails whose segment was recorded
\* as removed carries that removal time; the others carry no removal time.
C5_RemovalTimeReported ==
    \A i \in 1..Len(GetThumbnails(simple)) :
        LET r == GetThumbnails(simple)[i]
        IN  IF RemovalTimeOf(simple, r.sn) # NULL
            THEN r.removalTime = RemovalTimeOf(simple, r.sn)
            ELSE r.removalTime \in {NULL, UNDEFINED}

\* C6: for every thumbnail the SimpleThumbnailGenerator recorded, its
\* subscribers received a newThumbnail event carrying it, followed by a
\* thumbnailsChanged event.
C6_NewThumbnailDelivered ==
    \A i \in 1..Len(simple.recorded) :
        \E j \in 1..(Len(simple.events) - 1) :
            /\ simple.events[j] = Event("newThumbnail", simple.recorded[i])
            /\ simple.events[j + 1].type = "thumbnailsChanged"

\* C7: for every thumbnail file a GC run unlinked, the subscribers received a
\* thumbnailRemoved event carrying that thumbnail.
C7_ThumbnailRemovedDelivered ==
    \A i \in 1..Len(simple.unlinked) :
        \E j \in 1..Len(simple.events) :
            /\ simple.events[j].type = "thumbnailRemoved"
            /\ simple.events[j].arg.name = simple.unlinked[i].name

\* the finished events delivered so far
FinishedCount == Len(EventsOfType(simple.events, "finished"))

\* C8: finished is emitted at most once, and only with the playlist observed
\* gone and no SegmentRecord left.
C8_FinishedOnceWhenDrained ==
    /\ FinishedCount <= 1
    /\ FinishedCount = 1 => (simple.playlistRemoved /\ simple.segments = <<>>)

\* finished was emitted after thumbnails had been recorded and reaped
C8_Witness ==
    /\ FinishedCount = 1
    /\ simple.recorded # <<>>
    /\ simple.destroyed

\* C9: once the playlist is observed gone (and destroy() is not called from
\* outside), finished is eventually emitted.
C9_GoneLeadsToFinished ==
    simple.playlistRemoved ~> (FinishedCount = 1)

\* the playlistEnded events an emitter delivered
EndedCount(events) == Len(EventsOfType(events, "playlistEnded"))

\* C10: playlistEnded is emitted at most once by either generator, and
\* neither ended flag goes from true back to false.
C10_EndedSticky ==
    [][/\ gen.playlistEnded => gen'.playlistEnded
       /\ simple.playlistEnded => simple'.playlistEnded
       /\ EndedCount(gen'.events) <= 1
       /\ EndedCount(simple'.events) <= 1]_vars

\* the playlist ended, and a later poll got a changed playlist without
\* EXT-X-ENDLIST, which was not accepted
C10_Witness ==
    /\ gen.playlistEnded
    /\ simple.playlistEnded
    /\ EndedCount(simple.events) = 1
    /\ gen.pc = "timer"
    /\ fetched # NoPlaylist
    /\ ~fetched.foundEndlist
    /\ HasPlaylistChanged(gen.parsedPlaylist, fetched)

\* C11: the ThumbnailGenerator emits playlistEnded only when no walk over the
\* playlist is in progress, no walk starts after it, and no newThumbnail
\* event follows it.
C11_EndedAfterWalk ==
    /\ EndedCount(gen.events) >= 1 => gen.pc \notin {"extract", "move"}
    /\ \A i, j \in 1..Len(gen.events) :
          (/\ gen.events[i].type = "playlistEnded"
           /\ gen.events[j].type = "newThumbnail") => j < i

\* playlistEnded followed the thumbnails of a playlist of two segments, and a
\* later poll got a different playlist
C11_Witness ==
    /\ EndedCount(gen.events) = 1
    /\ Len(NewThumbnails) >= 2
    /\ Len(gen.parsedPlaylist.segments) = 2
    /\ gen.pc = "timer"
    /\ fetched # NoPlaylist
    /\ Len(fetched.segments) >= 1
    /\ HasPlaylistChanged(gen.parsedPlaylist, fetched)

\* C12: run standalone, the program exits with code 0 once the stream has
\* ended and its thumbnails have been generated, also while the ended playlist
\* stays available (the runs in which it is found gone are C9's), and with
\* code 1 once the generator has emitted error.
C12_StandaloneExits ==
    /\ gen.endedEventEmitted ~> (ExitCode = 0 \/ simple.playlistRemoved)
    /\ (EventsOfType(gen.events, "error") # <<>>) ~> (ExitCode = 1)

C14_DestroyedIsSilent ==
    [][/\ gen.destroyed =>
            /\ gen'.events = gen.events
            /\ gen.pc # "init" => polls' = polls
            /\ ~ENABLED TimerFire
       /\ simple.destroyed =>
            /\ gen.destroyed
            /\ simple'.events = simple.events
            /\ ~ENABLED GcTick]_vars

\* destroy() was called while the first segment of the first playlist was
\* being extracted or moved, and the pipeline has come to rest since
C14_Witness ==
    /\ simple.destroyed
    /\ gen.pc = "stopped"
    /\ polls = 1
    /\ faults = 0
    /\ cfg.initialThumbnailCount = NULL
    /\ Len(gen.parsedPlaylist.segments) >= 1
    /\ gen.lastLocation = NoThumb
    /\ simple.unlinks = <<>>

\* every operation in flight has settled
Settled ==
    /\ gen.pc = "stopped"
    /\ simple.unlinks = <<>>
    /\ simple.writes = <<>>

\* C15: after destroy() without doNotDeleteFiles, once every operation in
\* flight has settled and no I/O operation has failed, the output directory
\* holds no thumbnail file and no manifest file of the generator.
C15_DestroyLeavesNothing ==
    (simple.destroyed /\ ~simple.doNotDeleteFiles /\ Settled /\ faults = 0) =>
        (files = {} /\ ~manifest.present)

\* C16: after destroy(true) no thumbnail file of the output directory and no
\* manifest file is deleted.
C16_DestroyKeepsFiles ==
    [][(simple.destroyed /\ simple.doNotDeleteFiles) =>
          /\ files \subseteq files'
          /\ manifest.present => manifest'.present]_vars

\* C17: while the generator is not destroyed and no manifest write is in
\* flight, the manifest on disk is the serialization of the current segment
\* list and ended flag.
C17_ManifestIsCurrent ==
    (~simple.destroyed /\ simple.writes = <<>>) =>
        manifest = Stringify(GetThumbnails(simple), simple.playlistEnded)

\* C18: at most one manifest write is in flight at any time.
C18_OneWriteInFlight ==
    Len(simple.writes) <= 1

\* C19: once the generator is destroyed no manifest write is started.
C19_NoWriteAfterDestroy ==
    [][simple.destroyed => Len(simple'.writes) <= Len(simple.writes)]_vars

\* C20: one poll makes at most playlistRetryCount + 1 fetch attempts (with
\* -1, which stands for unlimited retries, there is no such limit); it
\* yields gone when all of them have failed, and yields gone at once at an
\* attempt that gets a 404 when ignorePlaylist404 is not set.
C20_PollAttempts ==
    [][/\ cfg.playlistRetryCount # -1 =>
              gen'.numAttempts <= cfg.playlistRetryCount + 1
       /\ (FetchError /\ gen.numAttempts = cfg.playlistRetryCount + 1) =>
              (fetched' = NoPlaylist /\ gen'.pc # "wait")
       /\ (Fetch404 /\ ~cfg.ignorePlaylist404) =>
              (fetched' = NoPlaylist /\ gen'.pc # "wait")]_vars

\* C21: with ignorePlaylist404 set and playlistRetryCount = -1, an attempt
\* that gets a 404 does not yield gone: no playlistRemoved is emitted, the
\* generator is not destroyed, and lastLocation and the recorded thumbnails
\* are unchanged by it.
C21_Ignored404 ==
    [][(Fetch404 /\ cfg.ignorePlaylist404 /\ cfg.playlistRetryCount = -1) =>
          /\ fetched' # NoPlaylist
          /\ EventsOfType(gen'.events, "playlistRemoved") = <<>>
          /\ gen'.destroyed = gen.destroyed
          /\ gen'.lastLocation = gen.lastLocation
          /\ simple'.segments = simple.segments]_vars

\* C22: a SimpleThumbnailGenerator constructed with neverDelete never has a
\* GC run delete a SegmentRecord or start the unlink of a thumbnail file.
C22_NeverDelete ==
    [][cfg.neverDelete =>
          /\ GcTick => simple'.segments = simple.segments
          /\ \A i \in 1..Len(simple'.unlinks) :
                 simple'.unlinks[i].kind # "gc"]_vars

\* the time into the accepted playlist at which a thumbnail was taken
PlaylistTime(thumbnail) ==
    CalculateSegmentStartTime(gen.parsedPlaylist.segments,
                              thumbnail.sn - gen.parsedPlaylist.mediaSequence)
        + thumbnail.time

\* the total duration of the accepted playlist
Duration ==
    CalculateSegmentStartTime(gen.parsedPlaylist.segments,
                              Len(gen.parsedPlaylist.segments))

\* the first poll has completed, on a playlist of positive duration, with
\* targetThumbnailCount configured and nothing having failed
FirstPollDone ==
    /\ polls = 1
    /\ gen.pc = "timer"
    /\ gen.parsedPlaylist # NoPlaylist
    /\ Duration > 0
    /\ cfg.targetThumbnailCount # NULL
    /\ faults = 0

\* C23: the first poll of a playlist of duration D > 0, with
\* targetThumbnailCount = N, no initialThumbnailCount and no failure, emits
\* exactly N thumbnails, at the playlist times k * D / N for k = 0..N-1; when
\* that playlist is already ended, playlistEnded follows them.
C23_FirstPollTargetCount ==
    (FirstPollDone /\ cfg.initialThumbnailCount = NULL) =>
        /\ Len(NewThumbnails) = cfg.targetThumbnailCount
        /\ \A k \in 0..(cfg.targetThumbnailCount - 1) :
               PlaylistTime(NewThumbnails[k + 1].arg) * cfg.targetThumbnailCount
                   = k * Duration
        /\ gen.parsedPlaylist.foundEndlist =>
               /\ EndedCount(gen.events) = 1
               /\ gen.events[Len(gen.events)].type = "playlistEnded"

\* the first playlist had two segments and EXT-X-ENDLIST, and its two
\* thumbnails were taken in different segments
C23_Witness ==
    /\ FirstPollDone
    /\ cfg.initialThumbnailCount = NULL
    /\ gen.parsedPlaylist.foundEndlist
    /\ Len(gen.parsedPlaylist.segments) = 2
    /\ Len(NewThumbnails) = 2
    /\ NewThumbnails[1].arg.sn # NewThumbnails[2].arg.sn

\* the total durations of the playlists a fetch can return
PlaylistDurations ==
    {CalculateSegmentStartTime(p.segments, Len(p.segments)) : p \in Playlists}

\* C24: constructing a ThumbnailGenerator with both interval and
\* targetThumbnailCount set throws before any poll, timer or event; with
\* neither given targetThumbnailCount is 30; with only interval set
\* targetThumbnailCount is unset and no poll recomputes the interval.
C24_ConstructorOptions ==
    [][Construct =>
          /\ (Truthy(cfg.interval) /\ Truthy(cfg.targetThumbnailCount)) =>
                 /\ gen'.pc = "thrown"
                 /\ ~(ENABLED ConstructNext)'
                 /\ gen'.events = <<>> /\ simple'.events = <<>>
                 /\ simple'.writes = <<>> /\ polls' = 0
          /\ (cfg.interval = ABSENT /\ cfg.targetThumbnailCount = ABSENT) =>
                 /\ gen'.pc = "init"
                 /\ cfg'.targetThumbnailCount = 30
          /\ (Truthy(cfg.interval) /\ ~Truthy(cfg.targetThumbnailCount)) =>
                 /\ gen'.pc = "init"
                 /\ ~Truthy(cfg'.targetThumbnailCount)
                 /\ gen'.interval = cfg.interval
                 /\ \A d \in PlaylistDurations :
                        AdjustedInterval(gen'.interval, cfg'.targetThumbnailCount, d)
                            = cfg.interval]_vars

\* the constructor was called with an interval and a targetThumbnailCount
C24_Witness ==
    /\ gen.pc = "thrown"
    /\ cfg.interval = 3
    /\ cfg.targetThumbnailCount = 2

\* C25: with pingInterval set, a generator is destroyed and taken out of the
\* registry by its ping timeout only when no GET for it (and not its start)
\* happened in the last pingInterval seconds, it does not stay registered
\* beyond that time, and a GET for a generator that is not registered is
\* answered with 404.
C25_PingReaper ==
    [][\A id \in 1..MaxGenerators :
          /\ PingTimeout(id) =>
                 /\ now - service.generators[id].lastPing
                        >= service.pingInterval * MsPerSecond
                 /\ service'.generators[id].destroyed
                 /\ ~service'.generators[id].registered
          /\ (id \in Ids /\ service.generators[id].reaped) => ~Registered(id)
          /\ (Registered(id) /\ Truthy(service.pingInterval)) =>
                 now - service.generators[id].lastPing
                     <= service.pingInterval * MsPerSecond
          /\ (GetGenerator(id) /\ ~Registered(id)) => service'.status = 404
          /\ (GetGenerator(id) /\ Registered(id)) =>
                 (service'.status = 200 /\ service'.generators[id].registered)]_vars

\* a generator was pinged one second after its start, lived on past the
\* time its first timeout was set for, was then reaped, and a GET for it got 404
C25_Witness ==
    /\ service.pingInterval = 1
    /\ Len(service.generators) >= 1
    /\ service.generators[1].lastPing = MsPerSecond
    /\ service.generators[1].reaped
    /\ now = 2 * MsPerSecond
    /\ service.status = 404

\* C26: a generator started by POST /v1/start with a width or a height
\* produces thumbnails of that width or height, whatever width and height
\* the service was started with.
C26_RequestSizeOverrides ==
    \A id \in Ids :
        LET generator == service.generators[id]
        IN  /\ Truthy(generator.requested[1]) =>
                   generator.size[1] = generator.requested[1]
            /\ Truthy(generator.requested[2]) =>
                   generator.size[2] = generator.requested[2]

\* the total duration of a playlist
DurationOfPlaylist(playlist) ==
    CalculateSegmentStartTime(playlist.segments, Len(playlist.segments))

\* this step is a poll that accepts the playlist it fetched as changed
AcceptsChange ==
    /\ FetchOk
    /\ ~gen.destroyed
    /\ ~gen.playlistEnded
    /\ HasPlaylistChanged(gen.parsedPlaylist, fetched')

\* C27: with targetThumbnailCount configured, every poll that accepts a
\* changed playlist sets the interval to the total duration of that playlist
\* divided by targetThumbnailCount, and computes the next thumbnail time
\* with that interval.
C27_IntervalFollowsDuration ==
    [][(AcceptsChange /\ Truthy(cfg.targetThumbnailCount)) =>
          /\ gen'.interval * cfg.targetThumbnailCount = DurationOfPlaylist(fetched')
          /\ (/\ gen'.pc = "extract"
              /\ cfg.initialThumbnailCount # NULL
              /\ LastLocationSegmentIndex(gen.lastLocation, fetched'.mediaSequence,
                                          fetched'.segments) = NULL) =>
                 gen'.nextThumbnailTime =
                     Max(0, DurationOfPlaylist(fetched')
                              - (cfg.initialThumbnailCount * gen'.interval))]_vars

\* the playlists accepted so far, in order
AcceptedPlaylists == EventsOfType(gen.events, "playlistChanged")

\* the second accepted playlist was twice as long as the first, and the
\* interval in use is twice the interval of the first poll
C27_Witness ==
    /\ Truthy(cfg.targetThumbnailCount)
    /\ Len(AcceptedPlaylists) = 2
    /\ DurationOfPlaylist(AcceptedPlaylists[1].arg) > 0
    /\ DurationOfPlaylist(AcceptedPlaylists[2].arg)
           = 2 * DurationOfPlaylist(AcceptedPlaylists[1].arg)
    /\ gen.interval * cfg.targetThumbnailCount
           = DurationOfPlaylist(AcceptedPlaylists[2].arg)
    /\ gen.pc = "extract"

\* the next thumbnail time of a poll that finds no usable last location
InitialNextThumbnailTime(duration, interval) ==
    IF cfg.initialThumbnailCount = NULL THEN 0
    ELSE Max(0, duration - (cfg.initialThumbnailCount * interval))

\* C28: a poll that accepts a changed playlist of duration D and finds no
\* usable last location starts at time 0 when initialThumbnailCount is unset
\* and at max(0, D - initialThumbnailCount * interval) otherwise; so a first
\* poll with a fixed interval and initialThumbnailCount = k emits exactly the
\* last k interval positions when k * interval <= D, and starts at time 0
\* when k * interval > D.
C28_InitialRule ==
    /\ [][(/\ AcceptsChange
            /\ LastLocationSegmentIndex(gen.lastLocation, fetched'.mediaSequence,
                                        fetched'.segments) = NULL
            /\ DurationOfPlaylist(fetched') > 0) =>
              /\ gen'.pc = "extract"
              /\ gen'.nextThumbnailTime =
                     InitialNextThumbnailTime(DurationOfPlaylist(fetched'),
                                              gen'.interval)]_vars
    /\ [](( /\ polls = 1 /\ gen.pc = "timer" /\ faults = 0
            /\ gen.parsedPlaylist # NoPlaylist /\ Duration > 0
            /\ cfg.interval # NULL /\ cfg.initialThumbnailCount # NULL) =>
              IF cfg.initialThumbnailCount * cfg.interval <= Duration
              THEN /\ Len(NewThumbnails) = cfg.initialThumbnailCount
                   /\ \A j \in 1..cfg.initialThumbnailCount :
                          PlaylistTime(NewThumbnails[j].arg) =
                              Duration
                                - ((cfg.initialThumbnailCount - j + 1) * cfg.interval)
              ELSE /\ Len(NewThumbnails) >= 1
                   /\ PlaylistTime(NewThumbnails[1].arg) = 0)

\* the first poll, with initialThumbnailCount = 2, took the last two interval
\* positions of a playlist of two segments, one in each segment
C28_Witness ==
    /\ polls = 1
    /\ gen.pc = "timer"
    /\ faults = 0
    /\ cfg.initialThumbnailCount = 2
    /\ Len(gen.parsedPlaylist.segments) = 2
    /\ Len(NewThumbnails) = 2
    /\ NewThumbnails[1].arg.sn # NewThumbnails[2].arg.sn

\* the sequence numbers of the segments of a playlist
Window(playlist) ==
    playlist.mediaSequence..(playlist.mediaSequence + Len(playlist.segments) - 1)

\* C29: a poll that accepts a changed playlist (of positive duration) whose
\* segments do not include the segment of the stored last location treats
\* the last location as absent: it computes the next thumbnail time by the
\* initial rule and goes on to extract, without an exception.
C29_StaleLastLocation ==
    [][(/\ AcceptsChange
        /\ gen.lastLocation # NoThumb
        /\ gen.lastLocation.sn \notin Window(fetched')
        /\ DurationOfPlaylist(fetched') > 0) =>
          /\ ~NextThumbnailTimeThrows(
                  fetched'.segments,
                  LastLocationSegmentIndex(gen.lastLocation, fetched'.mediaSequence,
                                           fetched'.segments))
          /\ gen'.pc = "extract"
          /\ gen'.nextThumbnailTime =
                 InitialNextThumbnailTime(DurationOfPlaylist(fetched'),
                                          gen'.interval)]_vars


\* the number of newThumbnail events emitted so far
NewThumbnailCount(g) == Len(EventsOfType(g.events, "newThumbnail"))

\* C30: a failed download or extraction of one segment emits no newThumbnail,
\* leaves lastLocation and the files alone, does not destroy the generator,
\* and the walk goes on with the next segment or ends by arming the poll
\* timer; and when the next changed playlist still holds the segment that
\* failed, the walk of that poll starts no later than that segment, so that
\* the offset that failed is taken again.
C30_FailedSegment ==
    [][/\ (ExtractError /\ ~gen.destroyed) =>
             /\ NewThumbnailCount(gen') = NewThumbnailCount(gen)
             /\ gen'.lastLocation = gen.lastLocation
             /\ files' = files
             /\ ~gen'.destroyed
             /\ IF gen.walk.i + 1 < Len(gen.parsedPlaylist.segments)
                THEN \/ gen'.pc = "extract" /\ gen'.walk.i > gen.walk.i
                     \/ gen'.pc = "timer"
                ELSE gen'.pc = "timer"
       /\ (/\ AcceptsChange
           /\ gen.failed # NoFailure
           /\ gen.failed.sn \in Window(fetched')) =>
             /\ gen'.pc = "extract"
             /\ fetched'.mediaSequence + gen'.walk.i <= gen.failed.sn]_vars


\* C31: at most one call of _grabThumbnails is in progress and at most one
\* poll timer is pending, never both, and no timer is pending once the
\* generator is destroyed; the timer is armed only by the step that completes
\* a call, and every call that completes while the generator is not destroyed
\* arms it exactly once.
C31_OnePollAtATime ==
    /\ [](/\ gen.calls \in {0, 1}
          /\ gen.timers \in {0, 1}
          /\ gen.calls + gen.timers <= 1
          /\ gen.destroyed => gen.timers = 0
          /\ gen.calls = 1 <=> gen.pc \in {"fetch", "wait", "extract", "move"})
    /\ [][/\ gen'.timers > gen.timers =>
                (gen.calls = 1 /\ gen'.calls = 0 /\ ~gen'.destroyed)
          /\ (gen'.calls < gen.calls /\ ~gen'.destroyed) =>
                gen'.timers = gen.timers + 1]_vars

\* the second call of _grabThumbnails has completed after an emission walk and
\* armed its timer
C31_Witness ==
    /\ polls = 2
    /\ gen.pc = "timer"
    /\ gen.timers = 1
    /\ gen.calls = 0
    /\ Len(AcceptedPlaylists) = 2
    /\ NewThumbnailCount(gen) > 1


\* the sequence numbers the removal timeline holds a time for
Timeline(s) == Num(s.offset)..(Num(s.offset) + Len(s.times) - 1)

\* the first sequence number of the first playlist that was accepted
FirstAcceptedSn == AcceptedPlaylists[1].arg.mediaSequence

\* C32: the first playlistChanged sets the offset of the removal timeline to
\* the first sequence number of that playlist and records no removal; every
\* later playlistChanged with first sequence number F appends the current
\* time once for each n with offset + Len(times) <= n < F and nothing else, so
\* that afterwards every n from the first accepted sequence number up to F - 1
\* that is not below the offset has its removal time.
C32_RemovalTimeline ==
    [][AcceptsChange =>
         LET F == fetched'.mediaSequence
         IN  /\ IF simple.offset = NULL
                THEN /\ simple'.offset = F
                     /\ simple'.times = <<>>
                ELSE /\ simple'.offset = simple.offset
                     /\ simple'.times = simple.times \o
                            [i \in 1..Max(0, F - (simple.offset + Len(simple.times)))
                                |-> now]
             /\ \A n \in FirstAcceptedSn'..(F - 1) :
                    n >= simple'.offset => n \in Timeline(simple')]_vars

\* a later playlist has moved on by one segment, whose removal was recorded
C32_Witness ==
    /\ Len(AcceptedPlaylists) = 2
    /\ FirstAcceptedSn = 0
    /\ AcceptedPlaylists[2].arg.mediaSequence = 1
    /\ ~simple.playlistRemoved
    /\ simple.offset = 0
    /\ simple.times = <<MsPerSecond>>


\* a poll ends with _getPlaylist resolving null while the generator is alive
YieldsGone ==
    /\ Fetch404 \/ FetchError
    /\ ~gen.destroyed
    /\ gen'.pc # "wait"

\* C33: when a poll yields gone, every sequence number of the last accepted
\* playlist that has no removal time yet gets the current time as its removal
\* time, playlistRemoved is emitted once, and the ThumbnailGenerator is
\* destroyed with no poll in progress and no poll timer pending.
C33_GoneMarksWindow ==
    [][YieldsGone =>
         /\ \A n \in Window(gen.parsedPlaylist) :
                n \notin Timeline(simple) =>
                    /\ n \in Timeline(simple')
                    /\ simple'.times[n - simple'.offset + 1] = now
         /\ Len(EventsOfType(gen.events, "playlistRemoved")) = 0
         /\ Len(EventsOfType(gen'.events, "playlistRemoved")) = 1
         /\ gen'.destroyed
         /\ gen'.pc = "stopped"
         /\ gen'.calls = 0
         /\ gen'.timers = 0]_vars


\* the next sequence number the removal timeline will record
NextRemovedSn(s) == Num(s.offset) + Len(s.times)

\* C34: offset + Len(times) of the removal timeline never decreases, the
\* removal times are in non-decreasing order, and a GC run takes a prefix of
\* them away, moving the offset behind that prefix; every other step only
\* appends, so that no sequence number is recorded twice.
C34_TimelineMonotonic ==
    /\ [](\A i \in 1..Len(simple.times) : \A j \in i..Len(simple.times) :
              simple.times[i] <= simple.times[j])
    /\ [][/\ NextRemovedSn(simple') >= NextRemovedSn(simple)
          /\ IF GcTick
             THEN \E k \in 0..Len(simple.times) :
                     /\ simple'.times = SubSeq(simple.times, k + 1, Len(simple.times))
                     /\ k > 0 => simple'.offset = Num(simple.offset) + k
                     /\ k = 0 => simple'.offset = simple.offset
             ELSE /\ Len(simple'.times) >= Len(simple.times)
                  /\ SubSeq(simple'.times, 1, Len(simple.times)) = simple.times
                  /\ simple.offset # NULL => simple'.offset = simple.offset]_vars

\* removals were recorded at two different times, and GC has reaped before
C34_Witness ==
    /\ simple.offset = 1
    /\ simple.times = <<MsPerSecond>>
    /\ simple.playlistRemoved
    /\ Len(AcceptedPlaylists) = 2


\* the sequence numbers that have a SegmentRecord
RecordedSns(s) == {s.segments[i].sn : i \in 1..Len(s.segments)}

\* C35: a GC run that finds no removal time at or below its threshold changes
\* nothing; a GC run that finds some, the highest for sequence number h, sets
\* the offset to h + 1, deletes exactly the SegmentRecords with sn <= h,
\* starting one unlink for each of their thumbnails, and keeps the others as
\* they are; after every GC run no SegmentRecord has sn < offset.
C35_GcFrame ==
    [][GcTick =>
         LET expired == {i \in 1..Len(simple.times) :
                            simple.times[i] <= now + cfg.expireTime * MsPerSecond}
         IN  /\ IF expired = {}
                THEN /\ simple' = simple
                     /\ files' = files
                     /\ gen' = gen
                ELSE LET h == Num(simple.offset)
                                + (CHOOSE i \in expired : \A j \in expired : j <= i) - 1
                         kept == SelectSeq(simple.segments, LAMBDA seg : seg.sn > h)
                         gone == SelectSeq(simple.segments, LAMBDA seg : seg.sn <= h)
                     IN  /\ simple'.offset = h + 1
                         /\ simple'.segments = kept
                         /\ Len(simple'.unlinks) >=
                                Len(simple.unlinks) + Len(AllThumbnails(gone))
                         /\ \A i \in 1..Len(AllThumbnails(gone)) :
                                simple'.unlinks[Len(simple.unlinks) + i] =
                                    [kind |-> "gc", thumbnail |-> AllThumbnails(gone)[i]]
                         /\ files' = files
             /\ \A sn \in RecordedSns(simple') : sn >= simple'.offset]_vars

\* GC has reaped the record of segment 0 and kept the record of segment 1
C35_Witness ==
    /\ simple.offset = 1
    /\ ~simple.destroyed
    /\ RecordedSns(simple) = {1}
    /\ \E i \in 1..Len(simple.unlinks) :
          /\ simple.unlinks[i].kind = "gc"
          /\ simple.unlinks[i].thumbnail.name[1] = 0


\* C36: in every SegmentRecord the thumbnails are in strictly ascending order
\* of time, so no two recorded thumbnails share both sn and time.
C36_StrictlyAscending ==
    \A k \in 1..Len(simple.segments) :
        LET thumbnails == simple.segments[k].thumbnails
        IN  \A i \in 1..Len(thumbnails) : \A j \in (i + 1)..Len(thumbnails) :
                thumbnails[i].time < thumbnails[j].time


\* the number of error events in a list of events
ErrorCount(events) == Len(EventsOfType(events, "error"))

\* C37: when the resolution of the playlist url fails for a generator that
\* was not destroyed before, the ThumbnailGenerator emits one error event,
\* destroys itself and starts no poll, and the SimpleThumbnailGenerator
\* passes one error event on and destroys itself, after which its GC timer
\* does not fire; from then on there is one error event on either emitter and
\* no poll is ever started.
C37_ResolveFailure ==
    /\ [][(ResolveFail /\ ~gen.destroyed) =>
             /\ gen'.events = <<Event("error", NoThumb)>>
             /\ gen'.destroyed
             /\ gen'.pc = "stopped"
             /\ gen'.calls = 0
             /\ gen'.timers = 0
             /\ polls' = 0
             /\ simple'.events = <<Event("error", NoThumb)>>
             /\ simple'.destroyed
             /\ ~(ENABLED GcTick)'
             /\ ~(ENABLED TimerFire)']_vars
    /\ [](ErrorCount(gen.events) > 0 =>
             /\ ErrorCount(gen.events) = 1
             /\ ErrorCount(simple.events) = 1
             /\ polls = 0
             /\ gen.pc = "stopped"
             /\ gen.destroyed
             /\ simple.destroyed)

\* the resolution has failed and the manifest of the destroyed generator has
\* been deleted
C37_Witness ==
    /\ gen.events = <<Event("error", NoThumb)>>
    /\ simple.events = <<Event("error", NoThumb)>>
    /\ simple.destroyed
    /\ simple.unlinks = <<>>
    /\ polls = 0


\* the media sequence of the accepted playlists never went down
MediaSequenceNeverDecreased ==
    \A i \in 1..Len(AcceptedPlaylists) : \A j \in i..Len(AcceptedPlaylists) :
        AcceptedPlaylists[i].arg.mediaSequence <= AcceptedPlaylists[j].arg.mediaSequence

\* the unlinks that _gc started and that have not completed
PendingGcUnlinks(s) ==
    {i \in 1..Len(s.unlinks) : s.unlinks[i].kind = "gc"}

\* C38: while the playlist has not been reported gone and the media sequence
\* has never decreased, a GC run leaves the SegmentRecord of every sequence
\* number of the most recently accepted playlist as it is, and no unlink
\* started by GC is for a file of such a sequence number.
C38_GcSparesWindow ==
    /\ [][(GcTick /\ ~simple.playlistRemoved /\ MediaSequenceNeverDecreased) =>
             \A sn \in Window(gen.parsedPlaylist) \cap RecordedSns(simple) :
                 /\ sn \in RecordedSns(simple')
                 /\ simple'.segments[SegmentIndex(simple'.segments, sn)] =
                        simple.segments[SegmentIndex(simple.segments, sn)]]_vars
    /\ []((~simple.playlistRemoved /\ MediaSequenceNeverDecreased) =>
             \A i \in PendingGcUnlinks(simple) :
                 simple.unlinks[i].thumbnail.name[1] \notin Window(gen.parsedPlaylist))

\* the playlist has moved on from segment 0 to segment 1: GC has started to
\* delete the thumbnails of segment 0 and kept those of segment 1
C38_Witness ==
    /\ ~simple.playlistRemoved
    /\ ~simple.destroyed
    /\ MediaSequenceNeverDecreased
    /\ Len(AcceptedPlaylists) = 2
    /\ Window(gen.parsedPlaylist) = {1, 2}
    /\ 1 \in RecordedSns(simple)
    /\ 0 \notin RecordedSns(simple)
    /\ \E i \in PendingGcUnlinks(simple) : simple.unlinks[i].thumbnail.name[1] = 0


\* C39: every thumbnail the ThumbnailGenerator has emitted was added to a
\* SegmentRecord by the newThumbnail listener, in the order of emission: the
\* listener never drops one for having a sequence number below the offset.
C39_EveryThumbnailTracked ==
    /\ Len(simple.recorded) = Len(NewThumbnails)
    /\ \A i \in 1..Len(NewThumbnails) : simple.recorded[i] = NewThumbnails[i].arg


\* C40: in the step that delivers finished to the subscribers, no thumbnail
\* file is left in the output directory and no unlink of a thumbnail file is
\* still pending.
C40_FinishedAfterUnlinks ==
    [][FinishedCount' > FinishedCount =>
         /\ files' = {}
         /\ \A i \in 1..Len(simple'.unlinks) : simple'.unlinks[i].kind = "manifest"]_vars

=============================================================================
